---- MODULE Spec2Model ----
(***************************************************************************)
(* Model of hooks/notify.py: one invocation of the notification hook.      *)
(*                                                                         *)
(* Python strings are sequences of one-character strings, so that `in`     *)
(* (substring search), `.lower()` and `==` are computed as Python computes *)
(* them.  Every external call (HTTP request, subprocess, open() of the log *)
(* file, import of requests, stat of the manager script) has its outcome   *)
(* chosen by the environment at the step that makes the call.              *)
(***************************************************************************)
EXTENDS Integers, Sequences, FiniteSets, TLC

VARIABLES
    env,          \* os.environ and cwd as seen by this invocation
    stdin,        \* what is connected to standard input
    pc,           \* position in main / ensure_chatterbox_running / speak_with_chatterbox
    hook_type,    \* main: hook_type
    event_data,   \* main: event_data
    project,      \* main: project
    is_compact,   \* main: is_compact
    message,      \* main: message
    ensure_ret,   \* return value of ensure_chatterbox_running()
    speak_ret,    \* return value of speak_with_chatterbox()
    obs,          \* outcomes of the external calls made so far
    calls,        \* external calls issued so far, in order
    log,          \* lines appended to DEBUG_LOG by this invocation
    exit_status   \* process exit status

vars == <<env, stdin, pc, hook_type, event_data, project, is_compact, message,
          ensure_ret, speak_ret, obs, calls, log, exit_status>>

----------------------------------------------------------------------------
(* Python str operations *)

UpperToLower ==
    [A |-> "a", B |-> "b", C |-> "c", D |-> "d", E |-> "e", F |-> "f", G |-> "g",
     H |-> "h", I |-> "i", J |-> "j", K |-> "k", L |-> "l", M |-> "m", N |-> "n",
     O |-> "o", P |-> "p", Q |-> "q", R |-> "r", S |-> "s", T |-> "t", U |-> "u",
     V |-> "v", W |-> "w", X |-> "x", Y |-> "y", Z |-> "z"]

\* str.lower()
Lower(s) ==
    [i \in 1..Len(s) |-> IF s[i] \in DOMAIN UpperToLower THEN UpperToLower[s[i]] ELSE s[i]]

\* needle in hay, for two str
StrIn(needle, hay) ==
    \E i \in 0..(Len(hay) - Len(needle)) : SubSeq(hay, i + 1, i + Len(needle)) = needle

----------------------------------------------------------------------------
(* Values of json.loads.  Every value is a record of the same shape; t is  *)
(* the Python type, the other fields are meaningful for that type only.    *)

NoStr == <<>>
Absent == [t |-> "absent", s |-> NoStr]          \* key not in the dict
PyStr(s) == [t |-> "str", s |-> s]
PyInt == [t |-> "int", s |-> NoStr]              \* a JSON number

PyDict(source, msg) == [t |-> "dict", source |-> source, message |-> msg, s |-> NoStr, items |-> <<>>]
PyList(items) == [t |-> "list", source |-> Absent, message |-> Absent, s |-> NoStr, items |-> items]
PyDocStr(s) == [t |-> "str", source |-> Absent, message |-> Absent, s |-> s, items |-> <<>>]
PyDocInt == [t |-> "int", source |-> Absent, message |-> Absent, s |-> NoStr, items |-> <<>>]
PyDocNone == [t |-> "NoneType", source |-> Absent, message |-> Absent, s |-> NoStr, items |-> <<>>]
EmptyDict == PyDict(Absent, Absent)

\* result of an expression: a value or a raised exception
Ok(v) == [ok |-> TRUE, v |-> v, exc |-> "none"]
Raise(e) == [ok |-> FALSE, v |-> Absent, exc |-> e]

\* event_data.get(key, default) for key in {'source', 'message'}
DictGet(d, key, default) ==
    IF d.t # "dict" THEN Raise("AttributeError")
    ELSE LET v == IF key = "source" THEN d.source ELSE d.message
         IN  Ok(IF v.t = "absent" THEN default ELSE v)

\* 'message' in event_data
HasMessageKey(d) ==
    CASE d.t = "dict" -> Ok(d.message.t # "absent")
      [] d.t = "list" -> Ok(\E i \in 1..Len(d.items) : d.items[i] = <<"m","e","s","s","a","g","e">>)
      [] d.t = "str"  -> Ok(StrIn(<<"m","e","s","s","a","g","e">>, d.s))
      [] OTHER        -> Raise("TypeError")

\* event_data['message'], evaluated only when 'message' in event_data
GetItemMessage(d) ==
    IF d.t = "dict" THEN Ok(d.message) ELSE Raise("TypeError")

----------------------------------------------------------------------------
(* Message composition, main lines 160-192 *)

SessionStart == <<"S","e","s","s","i","o","n","S","t","a","r","t">>

IsSessionStart(h) == StrIn(SessionStart, h)

\* IsCompact without the guard of line 162 (source consulted for every
\* classifier); C6_SourceIgnored must not hold of it
IsCompactBroad(h, d) ==
    LET g == DictGet(d, "source", PyStr(<<>>))
    IN  IF ~g.ok THEN g
        ELSE IF g.v.t # "str" THEN Raise("AttributeError")
        ELSE LET source == Lower(g.v.s)
             IN  Ok(\/ StrIn(<<"c","o","m","p","a","c","t">>, source)
                    \/ StrIn(<<"c","o","m","p","a","c","t","i","o","n">>, source)
                    \/ StrIn(<<":","c","o","m","p","a","c","t">>, Lower(h)))

\* lines 161-165: Ok(TRUE/FALSE) or the exception raised on the way
IsCompact(h, d) ==
    IF ~IsSessionStart(h) THEN Ok(FALSE)
    ELSE LET g == DictGet(d, "source", PyStr(<<>>))
         IN  IF ~g.ok THEN g
             ELSE IF g.v.t # "str" THEN Raise("AttributeError")
             ELSE LET source == Lower(g.v.s)
                  IN  Ok(\/ StrIn(<<"c","o","m","p","a","c","t">>, source)
                         \/ StrIn(<<"c","o","m","p","a","c","t","i","o","n">>, source)
                         \/ StrIn(<<":","c","o","m","p","a","c","t">>, Lower(h)))

HelpMessage(p) == <<"D","a","v","i","d",","," ","I"," ","n","e","e","d"," ","y","o","u","r"," ","h","e","l","p"," ","i","n"," ">> \o p

\* ExplicitMessage without the .lower() of line 169; C5_ExplicitMessageWins
\* must not hold of it
ExplicitMessageCaseSensitive(m, p) ==
    IF m.t # "str" THEN Raise("AttributeError")
    ELSE IF StrIn(<<"w","a","i","t","i","n","g"," ","f","o","r"," ","y","o","u","r"," ","i","n","p","u","t">>, m.s) THEN Ok(HelpMessage(p))
    ELSE Ok(m.s)

\* lines 168-170
ExplicitMessage(m, p) ==
    IF m.t # "str" THEN Raise("AttributeError")
    ELSE IF StrIn(<<"w","a","i","t","i","n","g"," ","f","o","r"," ","y","o","u","r"," ","i","n","p","u","t">>, Lower(m.s)) THEN Ok(HelpMessage(p))
    ELSE Ok(m.s)

\* lines 174-182; event_data is a dict and source a str when this is reached
SessionStartMessage(d, p) ==
    LET source == DictGet(d, "source", PyStr(<<"u","n","k","n","o","w","n">>)).v
    IN  IF source = PyStr(<<"s","t","a","r","t","u","p">>) THEN <<"D","a","v","i","d",","," ","I"," ","a","m"," ","r","e","a","d","y"," ","t","o"," ","w","o","r","k"," ","o","n"," ">> \o p
        ELSE IF source = PyStr(<<"r","e","s","u","m","e">>) THEN <<"D","a","v","i","d",","," ","I"," ","a","m"," ","r","e","s","u","m","i","n","g"," ","w","o","r","k"," ","o","n"," ">> \o p
        ELSE IF source = PyStr(<<"c","l","e","a","r">>)
             THEN <<"D","a","v","i","d",","," ","I"," ","h","a","v","e"," ","c","l","e","a","r","e","d"," ","t","h","e"," ","c","o","n","t","e","x","t"," ","a","n","d"," ","a","m"," ","r","e","a","d","y"," ","f","o","r"," ">> \o p
        ELSE <<"D","a","v","i","d",","," ","I"," ","a","m"," ","r","e","a","d","y"," ","t","o"," ","w","o","r","k"," ","o","n"," ">> \o p

\* ClassifierMessage with the 'Stop' test ahead of the 'SubagentStop' test;
\* C4_DecisionTable must not hold of it
ClassifierMessageStopFirst(h, p) ==
    IF StrIn(<<"S","t","o","p">>, h) THEN <<"D","a","v","i","d",","," ","I"," ","h","a","v","e"," ","c","o","m","p","l","e","t","e","d"," ","m","y"," ","w","o","r","k"," ","i","n"," ">> \o p
    ELSE IF StrIn(<<"S","u","b","a","g","e","n","t","S","t","o","p">>, h)
         THEN <<"D","a","v","i","d",","," ","t","h","e"," ","s","u","b","a","g","e","n","t"," ","h","a","s"," ","c","o","m","p","l","e","t","e","d"," ","i","t","s"," ","w","o","r","k"," ","i","n"," ">> \o p \o <<","," ","m","o","v","i","n","g"," ","o","n"," ","n","o","w">>
    ELSE IF StrIn(<<"N","o","t","i","f","i","c","a","t","i","o","n">>, h) THEN HelpMessage(p)
    ELSE IF StrIn(<<"P","r","e","C","o","m","p","a","c","t">>, h)
         THEN <<"D","a","v","i","d",","," ","p","r","e","p","a","r","i","n","g"," ","t","o"," ","c","o","m","p","a","c","t"," ","t","h","e"," ","c","o","n","t","e","x","t"," ","w","i","n","d","o","w"," ","i","n"," ">> \o p
    ELSE <<"D","a","v","i","d",","," ","C","l","a","u","d","e"," ","n","e","e","d","s"," ","y","o","u","r"," ","i","n","p","u","t"," ","i","n"," ">> \o p

\* lines 183-192
ClassifierMessage(h, p) ==
    IF StrIn(<<"S","u","b","a","g","e","n","t","S","t","o","p">>, h)
    THEN <<"D","a","v","i","d",","," ","t","h","e"," ","s","u","b","a","g","e","n","t"," ","h","a","s"," ","c","o","m","p","l","e","t","e","d"," ","i","t","s"," ","w","o","r","k"," ","i","n"," ">> \o p \o <<","," ","m","o","v","i","n","g"," ","o","n"," ","n","o","w">>
    ELSE IF StrIn(<<"N","o","t","i","f","i","c","a","t","i","o","n">>, h) THEN HelpMessage(p)
    ELSE IF StrIn(<<"S","t","o","p">>, h) THEN <<"D","a","v","i","d",","," ","I"," ","h","a","v","e"," ","c","o","m","p","l","e","t","e","d"," ","m","y"," ","w","o","r","k"," ","i","n"," ">> \o p
    ELSE IF StrIn(<<"P","r","e","C","o","m","p","a","c","t">>, h)
         THEN <<"D","a","v","i","d",","," ","p","r","e","p","a","r","i","n","g"," ","t","o"," ","c","o","m","p","a","c","t"," ","t","h","e"," ","c","o","n","t","e","x","t"," ","w","i","n","d","o","w"," ","i","n"," ">> \o p
    ELSE <<"D","a","v","i","d",","," ","C","l","a","u","d","e"," ","n","e","e","d","s"," ","y","o","u","r"," ","i","n","p","u","t"," ","i","n"," ">> \o p

\* lines 161-192: Ok(message) or the exception that leaves the try block
ComposeMessage(h, d, p) ==
    LET c == IsCompact(h, d)
    IN  IF ~c.ok THEN c
        ELSE LET k == HasMessageKey(d)
             IN  IF ~k.ok THEN k
                 ELSE IF k.v
                 THEN LET m == GetItemMessage(d)
                      IN  IF ~m.ok THEN m ELSE ExplicitMessage(m.v, p)
                 ELSE IF c.v
                 THEN Ok(<<"D","a","v","i","d",","," ","w","e"," ","h","a","v","e"," ","c","o","m","p","a","c","t","e","d"," ","t","h","e"," ","c","o","n","t","e","x","t"," ","w","i","n","d","o","w"," ","i","n"," ">> \o p)
                 ELSE IF IsSessionStart(h) THEN Ok(SessionStartMessage(d, p))
                 ELSE Ok(ClassifierMessage(h, p))

----------------------------------------------------------------------------
(* Inputs of one invocation *)

Unset == [set |-> FALSE, s |-> NoStr]
SetTo(s) == [set |-> TRUE, s |-> s]

\* os.environ.get(name, default)
EnvGet(var, default) == IF var.set THEN var.s ELSE default

HookTypeSettings ==
    {Unset, SetTo(<<"S","e","s","s","i","o","n","S","t","a","r","t">>), SetTo(<<"S","e","s","s","i","o","n","S","t","a","r","t",":","c","o","m","p","a","c","t">>),
     SetTo(<<"S","u","b","a","g","e","n","t","S","t","o","p">>), SetTo(<<"N","o","t","i","f","i","c","a","t","i","o","n">>), SetTo(<<"S","t","o","p">>),
     SetTo(<<"P","r","e","C","o","m","p","a","c","t">>), SetTo(<<"S","t","o","p",":","c","o","m","p","a","c","t">>), SetTo(<<"s","e","s","s","i","o","n","s","t","a","r","t">>),
     SetTo(<<"U","s","e","r","P","r","o","m","p","t","S","u","b","m","i","t">>)}

\* a path is the sequence of its components
NoPath == [set |-> FALSE, path |-> <<>>]
ProjectDirSettings == {NoPath, [set |-> TRUE, path |-> <<<<"s","r","v">>, <<"m","y","a","p","p">>>>]}
WorkingDirs == {<<<<"h","o","m","e">>, <<"w","e","b">>>>}

SourceValues ==
    {Absent, PyStr(<<"s","t","a","r","t","u","p">>), PyStr(<<"r","e","s","u","m","e">>), PyStr(<<"c","l","e","a","r">>), PyStr(<<"c","o","m","p","a","c","t">>),
     PyStr(<<"A","u","t","o","-","C","o","m","p","a","c","t","i","o","n">>), PyStr(<<"R","e","s","u","m","e">>), PyInt}

MessageValues ==
    {Absent, PyStr(<<"C","l","a","u","d","e"," ","i","s"," ","w","a","i","t","i","n","g"," ","f","o","r"," ","y","o","u","r"," ","i","n","p","u","t"," ","n","o","w">>),
     PyStr(<<"W","A","I","T","I","N","G"," ","F","O","R"," ","Y","O","U","R"," ","I","N","P","U","T">>), PyStr(<<"B","u","i","l","d"," ","f","i","n","i","s","h","e","d">>), PyInt}

Documents ==
    {PyDict(s, m) : s \in SourceValues, m \in MessageValues}
    \cup {PyDocNone, PyDocInt, PyDocStr(<<"h","e","l","l","o">>), PyDocStr(<<"a"," ","m","e","s","s","a","g","e">>),
          PyList(<<>>), PyList(<<<<"m","e","s","s","a","g","e">>>>)}

\* closed: sys.stdin is None; tty: a terminal; empty: read() returns '';
\* unreadable: read() raises; malformed: json.loads raises; json: a document
StdinKinds == {"closed", "tty", "empty", "unreadable", "malformed"}
Stdins ==
    {[kind |-> k, doc |-> EmptyDict] : k \in StdinKinds}
    \cup {[kind |-> "json", doc |-> d] : d \in Documents}

Call(op, text) == [op |-> op, text |-> text]

Init ==
    /\ env \in {[hook |-> h, project_dir |-> p, cwd |-> c] :
                  h \in HookTypeSettings, p \in ProjectDirSettings, c \in WorkingDirs}
    /\ stdin \in Stdins
    /\ pc = "main"
    /\ hook_type = NoStr
    /\ event_data = EmptyDict
    /\ project = NoStr
    /\ is_compact = FALSE
    /\ message = NoStr
    /\ ensure_ret = "NotCalled"
    /\ speak_ret = "NotCalled"
    /\ obs = [imported |-> "none", probe1 |-> "none", script |-> "none",
              manager |-> "none", probe2 |-> "none", post |-> "none",
              composed |-> "none", log_errors |-> 0]
    /\ calls = <<>>
    /\ log = <<>>
    /\ exit_status = -1

----------------------------------------------------------------------------
(* log_debug, lines 33-37: open() or write() may raise OSError *)

LogDebug(line, next, raised) ==
    \/ /\ log' = Append(log, line)
       /\ pc' = next
       /\ obs' = obs
    \/ /\ log' = log
       /\ pc' = raised
       /\ obs' = [obs EXCEPT !.log_errors = @ + 1]

Locals == <<hook_type, event_data, project, is_compact, message>>
Inputs == <<env, stdin>>

----------------------------------------------------------------------------
(* main, lines 137-146 *)

Main_GetHookType ==
    /\ pc = "main"
    /\ hook_type' = EnvGet(env.hook, <<"u","n","k","n","o","w","n">>)
    /\ pc' = IF IsSessionStart(hook_type') \/ hook_type' = SessionStart
             THEN "main_log_session" ELSE "main_read"
    /\ UNCHANGED <<Inputs, event_data, project, is_compact, message, ensure_ret,
                   speak_ret, obs, calls, log, exit_status>>

Main_LogSessionStart ==
    /\ pc = "main_log_session"
    /\ LogDebug("SessionStart detected", "ensure_import", "main_except")
    /\ ensure_ret' = IF pc' = "ensure_import" THEN "Running" ELSE ensure_ret
    /\ UNCHANGED <<Inputs, Locals, speak_ret, calls, exit_status>>

----------------------------------------------------------------------------
(* ensure_chatterbox_running, lines 39-99 *)

\* return v to main (line 146 discards the value)
EnsureReturn(v) == ensure_ret' = IF pc' = "main_read" THEN v
                                 ELSE IF pc' = "main_except" THEN "Raised"
                                 ELSE ensure_ret

\* go on inside the function, or leave it with an exception nothing here catches
EnsureContinue == ensure_ret' = IF pc' = "main_except" THEN "Raised" ELSE ensure_ret

Ensure_Import ==
    /\ pc = "ensure_import"
    /\ \E r \in {"ok", "ImportError"} :
         /\ obs' = [obs EXCEPT !.imported = r]
         /\ pc' = IF r = "ok" THEN "ensure_probe1" ELSE "ensure_import_error"
    /\ UNCHANGED <<Inputs, Locals, ensure_ret, speak_ret, calls, log, exit_status>>

Ensure_ImportError ==
    /\ pc = "ensure_import_error"
    /\ LogDebug("requests module not available", "main_read", "main_except")
    /\ EnsureReturn("False")
    /\ UNCHANGED <<Inputs, Locals, speak_ret, calls, exit_status>>

Ensure_Probe1 ==
    /\ pc = "ensure_probe1"
    /\ calls' = Append(calls, Call("GET /health", NoStr))
    /\ \E r \in {"200", "non200", "exception"} :
         /\ obs' = [obs EXCEPT !.probe1 = r]
         /\ pc' = IF r = "200" THEN "ensure_log_running" ELSE "ensure_log_starting"
    /\ UNCHANGED <<Inputs, Locals, ensure_ret, speak_ret, log, exit_status>>

\* line 48 is inside the try of line 45: the bare except swallows its exception
Ensure_AlreadyRunning ==
    /\ pc = "ensure_log_running"
    /\ LogDebug("ChatterBox already running", "main_read", "ensure_log_starting")
    /\ EnsureReturn("True")
    /\ UNCHANGED <<Inputs, Locals, speak_ret, calls, exit_status>>

Ensure_LogStarting ==
    /\ pc = "ensure_log_starting"
    /\ LogDebug("ChatterBox not running, starting service...", "ensure_exists", "main_except")
    /\ EnsureContinue
    /\ UNCHANGED <<Inputs, Locals, speak_ret, calls, exit_status>>

\* line 57
Ensure_CheckScript ==
    /\ pc = "ensure_exists"
    /\ \E r \in {"exists", "missing"} :
         /\ obs' = [obs EXCEPT !.script = r]
         /\ pc' = IF r = "exists" THEN "ensure_run" ELSE "ensure_log_missing"
    /\ UNCHANGED <<Inputs, Locals, ensure_ret, speak_ret, calls, log, exit_status>>

Ensure_LogMissing ==
    /\ pc = "ensure_log_missing"
    /\ LogDebug("Manager script not found", "main_read", "main_except")
    /\ EnsureReturn("False")
    /\ UNCHANGED <<Inputs, Locals, speak_ret, calls, exit_status>>

Ensure_RunManager ==
    /\ pc = "ensure_run"
    /\ calls' = Append(calls, Call("manager ensure", NoStr))
    /\ \E r \in {"exit0", "nonzero", "TimeoutExpired", "exception"} :
         /\ obs' = [obs EXCEPT !.manager = r]
         /\ pc' = CASE r = "exit0"          -> "ensure_log_started"
                    [] r = "nonzero"        -> "ensure_log_failed"
                    [] r = "TimeoutExpired" -> "ensure_log_timeout"
                    [] r = "exception"      -> "ensure_log_error"
    /\ UNCHANGED <<Inputs, Locals, ensure_ret, speak_ret, log, exit_status>>

\* an exception of line 72 is caught by the except Exception of line 93
Ensure_LogStarted ==
    /\ pc = "ensure_log_started"
    /\ LogDebug("ChatterBox service started successfully", "ensure_sleep", "ensure_log_error")
    /\ UNCHANGED <<Inputs, Locals, ensure_ret, speak_ret, calls, exit_status>>

Ensure_Sleep ==
    /\ pc = "ensure_sleep"
    /\ calls' = Append(calls, Call("sleep", NoStr))
    /\ pc' = "ensure_probe2"
    /\ UNCHANGED <<Inputs, Locals, ensure_ret, speak_ret, obs, log, exit_status>>

\* a non-200 answer leaves the try of line 78 without a return: the function
\* ends and returns None
Ensure_Probe2 ==
    /\ pc = "ensure_probe2"
    /\ calls' = Append(calls, Call("GET /health", NoStr))
    /\ \E r \in {"200", "non200", "exception"} :
         /\ obs' = [obs EXCEPT !.probe2 = r]
         /\ pc' = CASE r = "200"       -> "ensure_log_verified"
                    [] r = "non200"    -> "main_read"
                    [] r = "exception" -> "ensure_log_unresponsive"
    /\ EnsureReturn("None")
    /\ UNCHANGED <<Inputs, Locals, speak_ret, log, exit_status>>

\* line 81 is inside the try of line 78: the bare except of line 83 catches it
Ensure_LogVerified ==
    /\ pc = "ensure_log_verified"
    /\ LogDebug("ChatterBox service verified as running", "main_read", "ensure_log_unresponsive")
    /\ EnsureReturn("True")
    /\ UNCHANGED <<Inputs, Locals, speak_ret, calls, exit_status>>

\* an exception of line 84 is caught by the except Exception of line 93
Ensure_LogUnresponsive ==
    /\ pc = "ensure_log_unresponsive"
    /\ LogDebug("ChatterBox started but not yet responsive", "main_read", "ensure_log_error")
    /\ EnsureReturn("False")
    /\ UNCHANGED <<Inputs, Locals, speak_ret, calls, exit_status>>

Ensure_LogFailed ==
    /\ pc = "ensure_log_failed"
    /\ LogDebug("Failed to start ChatterBox", "main_read", "ensure_log_error")
    /\ EnsureReturn("False")
    /\ UNCHANGED <<Inputs, Locals, speak_ret, calls, exit_status>>

\* an exception raised inside an except clause is not caught by its siblings
Ensure_LogTimeout ==
    /\ pc = "ensure_log_timeout"
    /\ LogDebug("Timeout starting ChatterBox service", "main_read", "main_except")
    /\ EnsureReturn("False")
    /\ UNCHANGED <<Inputs, Locals, speak_ret, calls, exit_status>>

Ensure_LogError ==
    /\ pc = "ensure_log_error"
    /\ LogDebug("Error starting ChatterBox", "main_read", "main_except")
    /\ EnsureReturn("False")
    /\ UNCHANGED <<Inputs, Locals, speak_ret, calls, exit_status>>

----------------------------------------------------------------------------
(* main, lines 148-158 *)

\* json.loads(input_data) of a well-formed text
JsonLoads(in) == in.doc

\* lines 149-156: the bare except turns a failing read or parse into {}
ReadEventData(in) ==
    CASE in.kind = "closed"     -> Raise("AttributeError")
      [] in.kind = "json"       -> Ok(JsonLoads(in))
      [] OTHER                  -> Ok(EmptyDict)

Main_ReadStdin ==
    /\ pc = "main_read"
    /\ LET r == ReadEventData(stdin)
       IN  /\ event_data' = IF r.ok THEN r.v ELSE event_data
           /\ pc' = IF r.ok THEN "main_project" ELSE "main_except"
    /\ calls' = IF stdin.kind \in {"closed", "tty"} THEN calls
                ELSE Append(calls, Call("read stdin", NoStr))
    /\ UNCHANGED <<Inputs, hook_type, project, is_compact, message, ensure_ret,
                   speak_ret, obs, log, exit_status>>

\* Path(p).name
PathName(path) == IF Len(path) = 0 THEN NoStr ELSE path[Len(path)]

\* lines 132-135
get_project_name(e) ==
    PathName(IF e.project_dir.set THEN e.project_dir.path ELSE e.cwd)

Main_GetProject ==
    /\ pc = "main_project"
    /\ project' = get_project_name(env)
    /\ pc' = "main_compose"
    /\ UNCHANGED <<Inputs, hook_type, event_data, is_compact, message, ensure_ret,
                   speak_ret, obs, calls, log, exit_status>>

\* lines 160-192
Main_Compose ==
    /\ pc = "main_compose"
    /\ LET r == ComposeMessage(hook_type, event_data, project)
           c == IsCompact(hook_type, event_data)
       IN  /\ is_compact' = IF c.ok THEN c.v ELSE is_compact
           /\ message' = IF r.ok THEN r.v ELSE message
           /\ obs' = [obs EXCEPT !.composed = IF r.ok THEN "ok" ELSE r.exc]
           /\ pc' = IF r.ok THEN "main_log_message" ELSE "main_except"
    /\ UNCHANGED <<Inputs, hook_type, event_data, project, ensure_ret, speak_ret,
                   calls, log, exit_status>>

\* line 194
Main_LogMessage ==
    /\ pc = "main_log_message"
    /\ LogDebug("Message", "speak_import", "main_except")
    /\ speak_ret' = IF pc' = "speak_import" THEN "Running" ELSE speak_ret
    /\ UNCHANGED <<Inputs, Locals, ensure_ret, calls, exit_status>>

----------------------------------------------------------------------------
(* speak_with_chatterbox, lines 101-125: everything is inside one try whose *)
(* except Exception logs and returns False                                  *)

SpeakReturn(v) == speak_ret' = IF pc' \in {"main_log_failed", "main_exit"} THEN v
                               ELSE IF pc' = "main_except" THEN "Raised"
                               ELSE speak_ret

\* line 104: a module imported by line 42 is taken from sys.modules
Speak_Import ==
    /\ pc = "speak_import"
    /\ \E r \in (IF obs.imported = "none" THEN {"ok", "ImportError"} ELSE {obs.imported}) :
         /\ obs' = [obs EXCEPT !.imported = r]
         /\ pc' = IF r = "ok" THEN "speak_log_sending" ELSE "speak_log_error"
    /\ UNCHANGED <<Inputs, Locals, ensure_ret, speak_ret, calls, log, exit_status>>

Speak_LogSending ==
    /\ pc = "speak_log_sending"
    /\ LogDebug("Sending to ChatterBox", "speak_post", "speak_log_error")
    /\ UNCHANGED <<Inputs, Locals, ensure_ret, speak_ret, calls, exit_status>>

\* Speak_Post repeating the request after a failure; C2_AtMostOnePost must
\* not hold of it
Speak_PostRetrying ==
    /\ pc = "speak_post"
    /\ calls' = Append(calls, Call("POST /speak", message))
    /\ \E r \in {"200", "non200", "exception"} :
         /\ obs' = [obs EXCEPT !.post = r]
         /\ pc' = IF r = "200" THEN "speak_log_success" ELSE "speak_post"
    /\ UNCHANGED <<Inputs, Locals, ensure_ret, speak_ret, log, exit_status>>

\* lines 114-116
Speak_Post ==
    /\ pc = "speak_post"
    /\ calls' = Append(calls, Call("POST /speak", message))
    /\ \E r \in {"200", "non200", "exception"} :
         /\ obs' = [obs EXCEPT !.post = r]
         /\ pc' = CASE r = "200"       -> "speak_log_success"
                    [] r = "non200"    -> "speak_log_status"
                    [] r = "exception" -> "speak_log_error"
    /\ UNCHANGED <<Inputs, Locals, ensure_ret, speak_ret, log, exit_status>>

Speak_LogSuccess ==
    /\ pc = "speak_log_success"
    /\ LogDebug("ChatterBox synthesis successful", "main_exit", "speak_log_error")
    /\ SpeakReturn("True")
    /\ UNCHANGED <<Inputs, Locals, ensure_ret, calls, exit_status>>

Speak_LogStatus ==
    /\ pc = "speak_log_status"
    /\ LogDebug("ChatterBox error", "main_log_failed", "speak_log_error")
    /\ SpeakReturn("False")
    /\ UNCHANGED <<Inputs, Locals, ensure_ret, calls, exit_status>>

Speak_LogError ==
    /\ pc = "speak_log_error"
    /\ LogDebug("ChatterBox speak error", "main_log_failed", "main_except")
    /\ SpeakReturn("False")
    /\ UNCHANGED <<Inputs, Locals, ensure_ret, calls, exit_status>>

----------------------------------------------------------------------------
(* main, lines 196-206 *)

Main_LogFailed ==
    /\ pc = "main_log_failed"
    /\ LogDebug("ChatterBox failed - no audio notification available", "main_exit", "main_except")
    /\ UNCHANGED <<Inputs, Locals, ensure_ret, speak_ret, calls, exit_status>>

\* line 200: SystemExit is not an Exception, the handler of line 202 lets it pass
Main_Exit ==
    /\ pc = "main_exit"
    /\ exit_status' = 0
    /\ pc' = "done"
    /\ UNCHANGED <<Inputs, Locals, ensure_ret, speak_ret, obs, calls, log>>

\* line 203: an exception raised here leaves main; the interpreter prints it
\* and exits with status 1
Main_Except ==
    /\ pc = "main_except"
    /\ LogDebug("Error", "main_except_trace", "done")
    /\ exit_status' = IF pc' = "done" THEN 1 ELSE exit_status
    /\ UNCHANGED <<Inputs, Locals, ensure_ret, speak_ret, calls>>

\* lines 204-206
Main_ExceptTraceback ==
    /\ pc = "main_except_trace"
    /\ LogDebug("Traceback", "main_exit", "done")
    /\ exit_status' = IF pc' = "done" THEN 1 ELSE exit_status
    /\ UNCHANGED <<Inputs, Locals, ensure_ret, speak_ret, calls>>

----------------------------------------------------------------------------

Next ==
    \/ Main_GetHookType
    \/ Main_LogSessionStart
    \/ Ensure_Import
    \/ Ensure_ImportError
    \/ Ensure_Probe1
    \/ Ensure_AlreadyRunning
    \/ Ensure_LogStarting
    \/ Ensure_CheckScript
    \/ Ensure_LogMissing
    \/ Ensure_RunManager
    \/ Ensure_LogStarted
    \/ Ensure_Sleep
    \/ Ensure_Probe2
    \/ Ensure_LogVerified
    \/ Ensure_LogUnresponsive
    \/ Ensure_LogFailed
    \/ Ensure_LogTimeout
    \/ Ensure_LogError
    \/ Main_ReadStdin
    \/ Main_GetProject
    \/ Main_Compose
    \/ Main_LogMessage
    \/ Speak_Import
    \/ Speak_LogSending
    \/ Speak_Post
    \/ Speak_LogSuccess
    \/ Speak_LogStatus
    \/ Speak_LogError
    \/ Main_LogFailed
    \/ Main_Exit
    \/ Main_Except
    \/ Main_ExceptTraceback

Spec == Init /\ [][Next]_vars

\* the same program in an environment where no call of log_debug raises
NextLogOk == Next /\ obs'.log_errors = 0

SpecLogOk == Init /\ [][NextLogOk]_vars

----------------------------------------------------------------------------
(* Properties *)

Done == pc = "done"

CountCalls(op) == Cardinality({i \in DOMAIN calls : calls[i].op = op})

Logged(line) == \E i \in DOMAIN log : log[i] = line

PostTexts == {calls[i].text : i \in {j \in DOMAIN calls : calls[j].op = "POST /speak"}}

EnsureReturned == ensure_ret \in {"True", "False", "None", "Raised"}

\* C1: every invocation of main ends with exit status 0, whatever failed on
\* the way, an exception raised by the top-level handler's own logging included.
C1_AlwaysExitZero == Done => exit_status = 0

\* C2: one invocation issues at most one POST /speak; a failed or non-200
\* submission is not retried.
C2_AtMostOnePost ==
    /\ CountCalls("POST /speak") <= 1
    /\ (obs.post \in {"non200", "exception"} /\ Done) => CountCalls("POST /speak") = 1

C2_Witness ==
    /\ Done
    /\ obs.post = "non200"
    /\ speak_ret = "False"
    /\ CountCalls("POST /speak") = 1

\* C3: at the end of an invocation ensure_chatterbox_running has been invoked
\* if and only if the classifier contains SessionStart, and for any other
\* classifier there was no GET /health and no manager subprocess.
C3_EnsureIffSessionStart ==
    Done =>
      /\ (ensure_ret # "NotCalled") <=> IsSessionStart(hook_type)
      /\ ~IsSessionStart(hook_type) =>
           /\ CountCalls("GET /health") = 0
           /\ CountCalls("manager ensure") = 0

Composed == obs.composed = "ok"

NoMessageField(d) ==
    CASE d.t = "dict" -> d.message.t = "absent"
      [] d.t = "list" -> \A i \in 1..Len(d.items) : d.items[i] # <<"m","e","s","s","a","g","e">>
      [] d.t = "str"  -> ~StrIn(<<"m","e","s","s","a","g","e">>, d.s)
      [] OTHER        -> FALSE

SourceIs(d, s) == d.t = "dict" /\ d.source = PyStr(s)

SourceIndicatesCompaction(d) ==
    /\ d.t = "dict"
    /\ d.source.t = "str"
    /\ \/ StrIn(<<"c","o","m","p","a","c","t">>, Lower(d.source.s))
       \/ StrIn(<<"c","o","m","p","a","c","t","i","o","n">>, Lower(d.source.s))

\* the decision table of the specification, rows in the order of precedence
TableMessage(h, d, p) ==
    CASE IsSessionStart(h) /\ (SourceIndicatesCompaction(d) \/ StrIn(<<":","c","o","m","p","a","c","t">>, Lower(h)))
           -> <<"D","a","v","i","d",","," ","w","e"," ","h","a","v","e"," ","c","o","m","p","a","c","t","e","d"," ","t","h","e"," ","c","o","n","t","e","x","t"," ","w","i","n","d","o","w"," ","i","n"," ">> \o p
      [] IsSessionStart(h) /\ SourceIs(d, <<"s","t","a","r","t","u","p">>)
           -> <<"D","a","v","i","d",","," ","I"," ","a","m"," ","r","e","a","d","y"," ","t","o"," ","w","o","r","k"," ","o","n"," ">> \o p
      [] IsSessionStart(h) /\ SourceIs(d, <<"r","e","s","u","m","e">>)
           -> <<"D","a","v","i","d",","," ","I"," ","a","m"," ","r","e","s","u","m","i","n","g"," ","w","o","r","k"," ","o","n"," ">> \o p
      [] IsSessionStart(h) /\ SourceIs(d, <<"c","l","e","a","r">>)
           -> <<"D","a","v","i","d",","," ","I"," ","h","a","v","e"," ","c","l","e","a","r","e","d"," ","t","h","e"," ","c","o","n","t","e","x","t"," ","a","n","d"," ","a","m"," ","r","e","a","d","y"," ","f","o","r"," ">> \o p
      [] IsSessionStart(h)
           -> <<"D","a","v","i","d",","," ","I"," ","a","m"," ","r","e","a","d","y"," ","t","o"," ","w","o","r","k"," ","o","n"," ">> \o p
      [] ~IsSessionStart(h) /\ StrIn(<<"S","u","b","a","g","e","n","t","S","t","o","p">>, h)
           -> <<"D","a","v","i","d",","," ","t","h","e"," ","s","u","b","a","g","e","n","t"," ","h","a","s"," ","c","o","m","p","l","e","t","e","d"," ","i","t","s"," ","w","o","r","k"," ","i","n"," ">> \o p \o <<","," ","m","o","v","i","n","g"," ","o","n"," ","n","o","w">>
      [] ~IsSessionStart(h) /\ ~StrIn(<<"S","u","b","a","g","e","n","t","S","t","o","p">>, h) /\ StrIn(<<"N","o","t","i","f","i","c","a","t","i","o","n">>, h)
           -> <<"D","a","v","i","d",","," ","I"," ","n","e","e","d"," ","y","o","u","r"," ","h","e","l","p"," ","i","n"," ">> \o p
      [] ~IsSessionStart(h) /\ ~StrIn(<<"S","u","b","a","g","e","n","t","S","t","o","p">>, h) /\ ~StrIn(<<"N","o","t","i","f","i","c","a","t","i","o","n">>, h)
         /\ StrIn(<<"S","t","o","p">>, h)
           -> <<"D","a","v","i","d",","," ","I"," ","h","a","v","e"," ","c","o","m","p","l","e","t","e","d"," ","m","y"," ","w","o","r","k"," ","i","n"," ">> \o p
      [] ~IsSessionStart(h) /\ ~StrIn(<<"S","u","b","a","g","e","n","t","S","t","o","p">>, h) /\ ~StrIn(<<"N","o","t","i","f","i","c","a","t","i","o","n">>, h)
         /\ ~StrIn(<<"S","t","o","p">>, h) /\ StrIn(<<"P","r","e","C","o","m","p","a","c","t">>, h)
           -> <<"D","a","v","i","d",","," ","p","r","e","p","a","r","i","n","g"," ","t","o"," ","c","o","m","p","a","c","t"," ","t","h","e"," ","c","o","n","t","e","x","t"," ","w","i","n","d","o","w"," ","i","n"," ">> \o p
      [] OTHER
           -> <<"D","a","v","i","d",","," ","C","l","a","u","d","e"," ","n","e","e","d","s"," ","y","o","u","r"," ","i","n","p","u","t"," ","i","n"," ">> \o p

C5_ExplicitMessageWins ==
    (Composed /\ event_data.t = "dict" /\ event_data.message.t # "absent") =>
      /\ event_data.message.t = "str"
      /\ message = IF StrIn(<<"w","a","i","t","i","n","g"," ","f","o","r"," ","y","o","u","r"," ","i","n","p","u","t">>, Lower(event_data.message.s))
                   THEN <<"D","a","v","i","d",","," ","I"," ","n","e","e","d"," ","y","o","u","r"," ","h","e","l","p"," ","i","n"," ">> \o project
                   ELSE event_data.message.s
      /\ event_data.message.s = <<"W","A","I","T","I","N","G"," ","F","O","R"," ","Y","O","U","R"," ","I","N","P","U","T">> =>
           message = <<"D","a","v","i","d",","," ","I"," ","n","e","e","d"," ","y","o","u","r"," ","h","e","l","p"," ","i","n"," ">> \o project
      /\ PostTexts \subseteq {message}

C5_Witness ==
    /\ Done
    /\ hook_type = <<"S","e","s","s","i","o","n","S","t","a","r","t",":","c","o","m","p","a","c","t">>
    /\ SourceIs(event_data, <<"c","o","m","p","a","c","t">>)
    /\ event_data.message = PyStr(<<"W","A","I","T","I","N","G"," ","F","O","R"," ","Y","O","U","R"," ","I","N","P","U","T">>)
    /\ PostTexts = {<<"D","a","v","i","d",","," ","I"," ","n","e","e","d"," ","y","o","u","r"," ","h","e","l","p"," ","i","n"," ","m","y","a","p","p">>}

WithSource(d, v) == [d EXCEPT !.source = v]

SameResult(a, b) ==
    /\ a.ok = b.ok
    /\ a.exc = b.exc
    /\ a.ok => a.v = b.v

\* C6: for a classifier that does not contain 'SessionStart' the 'source'
\* value is not consulted: replacing it by any other value (or removing it)
\* leaves the outcome of the composition, the composed message and the text
\* of every request unchanged.
C6_SourceIgnored ==
    (~IsSessionStart(hook_type) /\ obs.composed # "none" /\ event_data.t = "dict") =>
      \A v \in SourceValues :
        LET other == ComposeMessage(hook_type, WithSource(event_data, v), project)
        IN  /\ SameResult(other, ComposeMessage(hook_type, event_data, project))
            /\ other.ok <=> Composed
            /\ other.exc = (IF Composed THEN "none" ELSE obs.composed)
            /\ other.ok => (message = other.v /\ PostTexts \subseteq {other.v})

C6_Witness ==
    /\ Done
    /\ hook_type = <<"S","t","o","p",":","c","o","m","p","a","c","t">>
    /\ SourceIs(event_data, <<"c","o","m","p","a","c","t">>)
    /\ PostTexts = {<<"D","a","v","i","d",","," ","I"," ","h","a","v","e"," ","c","o","m","p","l","e","t","e","d"," ","m","y"," ","w","o","r","k"," ","i","n"," ","m","y","a","p","p">>}

\* the document main works on when stdin can be read at all
InputDocument == ReadEventData(stdin).v

\* C7: dependency and input errors do not stop the notification: when the
\* ensure step has failed on a session-start event (and the document is one a
\* message can be composed from), or stdin is a terminal, empty, unreadable or
\* malformed JSON, the invocation composes the message, calls the speech
\* submission and exits 0.
C7_ErrorsNeverStopNotification ==
    (/\ Done
     /\ \/ /\ ensure_ret \in {"False", "None"}
           /\ stdin.kind # "closed"
           /\ ComposeMessage(hook_type, InputDocument, get_project_name(env)).ok
        \/ stdin.kind \in {"tty", "empty", "unreadable", "malformed"})
    => /\ Composed
       /\ event_data = InputDocument
       /\ speak_ret # "NotCalled"
       /\ exit_status = 0

FirstProbeOk == obs.probe1 = "200"

StartedAndVerified ==
    /\ obs.probe1 \in {"non200", "exception"}
    /\ obs.script = "exists"
    /\ obs.manager = "exit0"
    /\ obs.probe2 = "200"

FailureLines ==
    {"requests module not available", "Manager script not found",
     "ChatterBox started but not yet responsive", "Failed to start ChatterBox",
     "Timeout starting ChatterBox service", "Error starting ChatterBox"}

\* C8: ensure_chatterbox_running returns True exactly when the first probe
\* answers 200, or the first probe fails, the script exists, the manager exits
\* 0 and the second probe answers 200; in every other case it returns a failure
\* result and has written a log entry for it; no exception reaches its caller.
C8_EnsureResult ==
    EnsureReturned =>
      /\ ensure_ret # "Raised"
      /\ (ensure_ret = "True") <=> (FirstProbeOk \/ StartedAndVerified)
      /\ ensure_ret # "True" =>
           /\ ensure_ret = "False"
           /\ \E l \in FailureLines : Logged(l)

IndexOf(op) == {i \in DOMAIN calls : calls[i].op = op}

\* C9: the external calls of the ensure step come in a fixed order, without
\* retries: the first probe first; the manager at most once, never after a
\* first probe that answered 200 nor when the script is missing; the second
\* probe at most once, only after the manager exited 0 and the settle wait;
\* and all of them before stdin is read and before the speech submission.
C9_EnsureCallOrder ==
    /\ CountCalls("GET /health") <= 2
    /\ CountCalls("manager ensure") <= 1
    /\ IndexOf("manager ensure") \cup IndexOf("sleep") \cup IndexOf("GET /health") # {}
         => calls[1].op = "GET /health"
    /\ CountCalls("manager ensure") = 1 =>
         /\ obs.probe1 \in {"non200", "exception"}
         /\ obs.script = "exists"
    /\ CountCalls("GET /health") = 2 =>
         /\ obs.manager = "exit0"
         /\ \E m \in IndexOf("manager ensure"), s \in IndexOf("sleep") :
              \A g \in IndexOf("GET /health") : g = 1 \/ (m < s /\ s < g)
    /\ \A e \in IndexOf("GET /health") \cup IndexOf("manager ensure") \cup IndexOf("sleep") :
         \A l \in IndexOf("read stdin") \cup IndexOf("POST /speak") : e < l

\* C10: when stdin holds valid JSON and the composition raises, the
\* invocation issues no POST /speak, logs the error and its traceback and
\* exits 0; a speech request is issued only after a message has been composed
\* and logged.
C10_ComposeFailureIsSilent ==
    /\ (Done /\ stdin.kind = "json" /\ obs.composed \notin {"none", "ok"}) =>
         /\ CountCalls("POST /speak") = 0
         /\ Logged("Error")
         /\ Logged("Traceback")
         /\ exit_status = 0
    /\ CountCalls("POST /speak") > 0 => (Composed /\ Logged("Message"))

====
